---- MODULE Spec2Model ----
(***************************************************************************)
(* ClusterManager of cluster-api-provider-baremetal                        *)
(* (baremetal/baremetalcluster_manager.go): the operations of one manager  *)
(* bound to one BareMetalCluster, against an object store holding the      *)
(* owner Cluster and the Machines.                                         *)
(*                                                                         *)
(* A Go pointer is a sequence: <<>> is nil, <<v>> points to v.  An error   *)
(* value is a string, NilErr being the nil error.                          *)
(***************************************************************************)
EXTENDS Integers, Sequences, FiniteSets, TLC

\* ------------------------------------------------------------------ bounds
\* Machine objects the store can hold at a time.
MaxMachines == 2
\* Largest reading of the wall clock.
MaxClock == 1
\* Longest finalizer list a BareMetalCluster is fetched with.
MaxFinalizers == 3

\* ------------------------------------------------------- program constants
ClusterFinalizer == "baremetalcluster.infrastructure.cluster.x-k8s.io"
OtherFinalizer == "foregroundDeletion"
OrphanFinalizer == "orphan"
InvalidConfigurationClusterError == "InvalidConfiguration"
UpdateClusterError == "UpdateError"
NilErr == "nil"
ErrInvalidSpec == "Missing fields from Spec"
ErrNotFound == "not found"

\* The BareMetalCluster's own namespace, and the names used in the store.
bmcNamespace == "ns1"
Namespaces == {"ns1", "ns2"}
clusterName == "c1"
ClusterNames == {"c1", "c2"}

Hosts == {"", "192.168.111.249"}
Ports == {0, 6443}

\* A Machine of the store: its namespace and its cluster-name label
\* (<<>>: the label is missing).  Machines of the owner cluster, of the
\* same cluster name in another namespace, of another cluster, unlabelled.
MachineObjects ==
    {[Namespace |-> "ns1", Label |-> <<"c1">>],
     [Namespace |-> "ns2", Label |-> <<"c1">>],
     [Namespace |-> "ns1", Label |-> <<"c2">>],
     [Namespace |-> "ns1", Label |-> <<>>]}

\* A machine image that passes admission.
validImage == [URL |-> "http://abc.com/image",
               Checksum |-> "http://abc.com/image.md5sum"]

\* The Cluster and BareMetalCluster objects a manager can be given.
Clusters == {[Namespace |-> bmcNamespace, Name |-> c] : c \in ClusterNames}
BareMetalClusters == {"bmc1", "bmc2"}
theCluster == [Namespace |-> bmcNamespace, Name |-> clusterName]

ClusterRef == [Kind |-> "Cluster", Name |-> clusterName]
MachineSetRef == [Kind |-> "MachineSet", Name |-> "ms"]

VARIABLES
    endPoint,        \* BareMetalCluster.Spec.ControlPlaneEndpoint
    OwnerReferences, \* BareMetalCluster.ObjectMeta.OwnerReferences
    Finalizers,      \* BareMetalCluster.ObjectMeta.Finalizers
    Ready,           \* BareMetalCluster.Status.Ready
    LastUpdated,     \* BareMetalCluster.Status.LastUpdated (pointer)
    FailureMessage,  \* BareMetalCluster.Status.FailureMessage (pointer)
    FailureReason,   \* BareMetalCluster.Status.FailureReason (pointer)
    APIEndpoints,    \* BareMetalCluster.Status.APIEndpoints
    storeClusters,   \* Cluster objects of the store
    storeMachines,   \* Machine objects of the store: how many of each
    clock,           \* latest reading of the wall clock
    manager,         \* the ClusterManager in use (pointer)
    image,           \* BareMetalMachine.Spec.Image of the machine at admission
    last             \* the last call: its name, inputs and return values

meta == <<endPoint, OwnerReferences, manager, image>>
status == <<Ready, LastUpdated, FailureMessage, FailureReason, APIEndpoints>>
store == <<storeClusters, storeMachines>>
vars == <<endPoint, OwnerReferences, Finalizers, Ready, LastUpdated,
          FailureMessage, FailureReason, APIEndpoints, storeClusters,
          storeMachines, clock, manager, image, last>>

\* ---------------------------------------------------------------- helpers
\* The record of a call.  count/err are the return values, panic a run-time
\* panic instead of a return; hadErr tells whether the status carried an
\* error record when the call was made; owner, listed and listFailed tell
\* how far listDescendants got, calls which calls of the store's client the
\* operation issued.  Kept from call to call: finSet, whether
\* SetFinalizer was called with no UnsetFinalizer since; again, whether this
\* SetFinalizer or UpdateClusterStatus directly follows a call of the same;
\* undo, whether this UnsetFinalizer directly follows a SetFinalizer, or this
\* clearError a setError.
Call(op, count, err) ==
    [op |-> op, count |-> count, err |-> err, panic |-> FALSE,
     hadErr |-> (FailureMessage # <<>> \/ FailureReason # <<>>),
     owner |-> FALSE, listed |-> FALSE, listFailed |-> FALSE, calls |-> {},
     finSet |-> IF op = "SetFinalizer" THEN TRUE
                ELSE IF op = "UnsetFinalizer" THEN FALSE
                ELSE last.finSet,
     again |-> (op = last.op /\ op \in {"SetFinalizer", "UpdateClusterStatus"}),
     undo |-> \/ (op = "UnsetFinalizer" /\ last.op = "SetFinalizer")
              \/ (op = "clearError" /\ last.op = "setError")]

\* Before any call.
NoCall ==
    [op |-> "init", count |-> 0, err |-> NilErr, panic |-> FALSE,
     hadErr |-> FALSE, owner |-> FALSE, listed |-> FALSE,
     listFailed |-> FALSE, calls |-> {}, finSet |-> FALSE, again |-> FALSE,
     undo |-> FALSE]

\* The operations are methods of a manager; a panic ends the process, and
\* no operation runs after it.
Running == manager # <<>> /\ ~last.panic

RECURSIVE Contains(_, _)
Contains(list, strToSearch) ==
    IF list = <<>> THEN FALSE
    ELSE IF Head(list) = strToSearch THEN TRUE
    ELSE Contains(Tail(list), strToSearch)

\* Filter dropping the first occurrence alone.
RECURSIVE Filter_First(_, _)
Filter_First(list, strToFilter) ==
    IF list = <<>> THEN <<>>
    ELSE IF Head(list) = strToFilter THEN Tail(list)
    ELSE <<Head(list)>> \o Filter_First(Tail(list), strToFilter)

\* Filter building its result back to front.
RECURSIVE Filter_Reversing(_, _)
Filter_Reversing(list, strToFilter) ==
    IF list = <<>> THEN <<>>
    ELSE IF Head(list) = strToFilter
         THEN Filter_Reversing(Tail(list), strToFilter)
    ELSE Filter_Reversing(Tail(list), strToFilter) \o <<Head(list)>>

RECURSIVE Filter(_, _)
Filter(list, strToFilter) ==
    IF list = <<>> THEN <<>>
    ELSE IF Head(list) = strToFilter THEN Filter(Tail(list), strToFilter)
    ELSE <<Head(list)>> \o Filter(Tail(list), strToFilter)

\* errors.Wrapf: wrapping the nil error gives the nil error.
Wrapf(err, msg) == IF err = NilErr THEN NilErr ELSE msg

\* BareMetalClusterSpec.IsValid
IsValid(config) ==
    IF config.Host = "" \/ config.Port = 0 THEN ErrInvalidSpec ELSE NilErr

\* ------------------------------------------------------------- operations
\* SetFinalizer with its test negated the wrong way round.
SetFinalizer_Inverted ==
    /\ Running
    /\ Finalizers' = IF Contains(Finalizers, ClusterFinalizer)
                     THEN Append(Finalizers, ClusterFinalizer)
                     ELSE Finalizers
    /\ last' = Call("SetFinalizer", 0, NilErr)
    /\ UNCHANGED <<meta, status, store, clock>>

\* SetFinalizer without its test.
SetFinalizer_AlwaysAppends ==
    /\ Running
    /\ Finalizers' = Append(Finalizers, ClusterFinalizer)
    /\ last' = Call("SetFinalizer", 0, NilErr)
    /\ UNCHANGED <<meta, status, store, clock>>

SetFinalizer ==
    /\ Running
    /\ Finalizers' = IF ~Contains(Finalizers, ClusterFinalizer)
                     THEN Append(Finalizers, ClusterFinalizer)
                     ELSE Finalizers
    /\ last' = Call("SetFinalizer", 0, NilErr)
    /\ UNCHANGED <<meta, status, store, clock>>

UnsetFinalizer ==
    /\ Running
    /\ Finalizers' = Filter(Finalizers, ClusterFinalizer)
    /\ last' = Call("UnsetFinalizer", 0, NilErr)
    /\ UNCHANGED <<meta, status, store, clock>>

\* setError writing the message alone.
setError_OnlyMessage(message, reason) ==
    /\ FailureMessage' = <<message>>
    /\ UNCHANGED FailureReason

setError(message, reason) ==
    /\ FailureMessage' = <<message>>
    /\ FailureReason' = <<reason>>

\* clearError resetting the message alone.
clearError_OnlyMessage ==
    IF FailureMessage # <<>> \/ FailureReason # <<>>
    THEN /\ FailureMessage' = <<>>
         /\ UNCHANGED FailureReason
    ELSE UNCHANGED <<FailureMessage, FailureReason>>

clearError ==
    IF FailureMessage # <<>> \/ FailureReason # <<>>
    THEN /\ FailureMessage' = <<>>
         /\ FailureReason' = <<>>
    ELSE UNCHANGED <<FailureMessage, FailureReason>>

\* Delete removing the finalizer itself.
Delete_UnsetsFinalizer ==
    /\ Running
    /\ Finalizers' = Filter(Finalizers, ClusterFinalizer)
    /\ last' = Call("Delete", 0, NilErr)
    /\ UNCHANGED <<meta, status, store, clock>>

\* Delete clearing the error record as part of its clean-up.
Delete_ClearsError ==
    /\ Running
    /\ clearError
    /\ last' = Call("Delete", 0, NilErr)
    /\ UNCHANGED <<meta, Finalizers, Ready, LastUpdated, APIEndpoints, store,
                   clock>>

\* Create adding the provider's token before validating.
Create_SetsFinalizer ==
    /\ Running
    /\ Finalizers' = IF ~Contains(Finalizers, ClusterFinalizer)
                     THEN Append(Finalizers, ClusterFinalizer)
                     ELSE Finalizers
    /\ LET config == endPoint
           err == IsValid(config)
       IN  IF err # NilErr
           THEN /\ setError("Invalid BareMetalCluster provided",
                            InvalidConfigurationClusterError)
                /\ last' = Call("Create", 0, err)
           ELSE /\ clearError
                /\ last' = Call("Create", 0, NilErr)
    /\ UNCHANGED <<meta, Ready, LastUpdated, APIEndpoints, store, clock>>

\* Create without the clearError of its success path.
Create_NoClear ==
    /\ Running
    /\ LET config == endPoint
           err == IsValid(config)
       IN  IF err # NilErr
           THEN /\ setError("Invalid BareMetalCluster provided",
                            InvalidConfigurationClusterError)
                /\ last' = Call("Create", 0, err)
           ELSE /\ UNCHANGED <<FailureMessage, FailureReason>>
                /\ last' = Call("Create", 0, NilErr)
    /\ UNCHANGED <<meta, Finalizers, Ready, LastUpdated, APIEndpoints, store,
                   clock>>

Create ==
    /\ Running
    /\ LET config == endPoint
           err == IsValid(config)
       IN  IF err # NilErr
           THEN /\ setError("Invalid BareMetalCluster provided",
                            InvalidConfigurationClusterError)
                /\ last' = Call("Create", 0, err)
           ELSE /\ clearError
                /\ last' = Call("Create", 0, NilErr)
    /\ UNCHANGED <<meta, Finalizers, Ready, LastUpdated, APIEndpoints, store,
                   clock>>

\* The error returned is the declared, never assigned, `var err error`.
ControlPlaneEndpoint ==
    LET err == NilErr
    IN  IF endPoint.Host = "" \/ endPoint.Port = 0
        THEN [endpoints |-> <<>>, err |-> err]
        ELSE [endpoints |-> <<[Host |-> endPoint.Host, Port |-> endPoint.Port]>>,
              err |-> NilErr]

\* Delete tearing down the owner cluster's Machines.
Delete_RemovesMachines ==
    /\ Running
    /\ storeMachines' =
          [o \in MachineObjects |->
              IF o.Namespace = bmcNamespace /\ o.Label = <<clusterName>>
              THEN 0 ELSE storeMachines[o]]
    /\ last' = [Call("Delete", 0, NilErr) EXCEPT !.calls = {"DeleteAllOf"}]
    /\ UNCHANGED <<meta, Finalizers, status, storeClusters, clock>>

Delete ==
    /\ Running
    /\ last' = Call("Delete", 0, NilErr)
    /\ UNCHANGED <<meta, Finalizers, status, store, clock>>

\* metav1.Now(): a reading of the wall clock, which never runs backwards.
Now(now) == now \in clock..MaxClock

\* UpdateClusterStatus stamping the zero time instead of the current time.
UpdateClusterStatus_ZeroTime ==
    /\ Running
    /\ LET err == ControlPlaneEndpoint.err
       IN  IF err # NilErr
           THEN /\ Ready' = FALSE
                /\ setError("Invalid ControlPlaneEndpoint values",
                            InvalidConfigurationClusterError)
                /\ last' = Call("UpdateClusterStatus", 0, err)
                /\ UNCHANGED LastUpdated
           ELSE /\ Ready' = TRUE
                /\ LastUpdated' = <<0>>
                /\ last' = Call("UpdateClusterStatus", 0, NilErr)
                /\ UNCHANGED <<FailureMessage, FailureReason>>
    /\ UNCHANGED <<meta, Finalizers, clock, APIEndpoints, store>>

\* UpdateClusterStatus flipping Ready instead of setting it.
UpdateClusterStatus_Toggle ==
    /\ Running
    /\ LET err == ControlPlaneEndpoint.err
       IN  IF err # NilErr
           THEN /\ Ready' = FALSE
                /\ setError("Invalid ControlPlaneEndpoint values",
                            InvalidConfigurationClusterError)
                /\ last' = Call("UpdateClusterStatus", 0, err)
                /\ UNCHANGED <<LastUpdated, clock>>
           ELSE /\ Ready' = ~Ready
                /\ \E now \in 0..MaxClock :
                      /\ Now(now)
                      /\ LastUpdated' = <<now>>
                      /\ clock' = now
                /\ last' = Call("UpdateClusterStatus", 0, NilErr)
                /\ UNCHANGED <<FailureMessage, FailureReason>>
    /\ UNCHANGED <<meta, Finalizers, APIEndpoints, store>>

\* UpdateClusterStatus without the LastUpdated stamp of its success path.
UpdateClusterStatus_NoStamp ==
    /\ Running
    /\ LET err == ControlPlaneEndpoint.err
       IN  IF err # NilErr
           THEN /\ Ready' = FALSE
                /\ setError("Invalid ControlPlaneEndpoint values",
                            InvalidConfigurationClusterError)
                /\ last' = Call("UpdateClusterStatus", 0, err)
           ELSE /\ Ready' = TRUE
                /\ last' = Call("UpdateClusterStatus", 0, NilErr)
                /\ UNCHANGED <<FailureMessage, FailureReason>>
    /\ UNCHANGED <<meta, Finalizers, LastUpdated, clock, APIEndpoints, store>>

UpdateClusterStatus ==
    /\ Running
    /\ LET err == ControlPlaneEndpoint.err
       IN  IF err # NilErr
           THEN /\ Ready' = FALSE
                /\ setError("Invalid ControlPlaneEndpoint values",
                            InvalidConfigurationClusterError)
                /\ last' = Call("UpdateClusterStatus", 0, err)
                /\ UNCHANGED <<LastUpdated, clock>>
           ELSE /\ Ready' = TRUE
                /\ \E now \in 0..MaxClock :
                      /\ Now(now)
                      /\ LastUpdated' = <<now>>
                      /\ clock' = now
                /\ last' = Call("UpdateClusterStatus", 0, NilErr)
                /\ UNCHANGED <<FailureMessage, FailureReason>>
    /\ UNCHANGED <<meta, Finalizers, APIEndpoints, store>>

\* Direct calls of the two unexported helpers (as the package's tests make).
SetErrorCall ==
    /\ Running
    /\ \E message \in {"abc"},
          reason \in {InvalidConfigurationClusterError, UpdateClusterError} :
          /\ setError(message, reason)
          /\ last' = [message |-> message, reason |-> reason]
                      @@ Call("setError", 0, NilErr)
    /\ UNCHANGED <<meta, Finalizers, Ready, LastUpdated, APIEndpoints, store,
                   clock>>

ClearErrorCall ==
    /\ Running
    /\ clearError
    /\ last' = Call("clearError", 0, NilErr)
    /\ UNCHANGED <<meta, Finalizers, Ready, LastUpdated, APIEndpoints, store,
                   clock>>

\* ------------------------------------------------------------ descendants
\* client.Get of a Cluster by namespace and name.
GetClusterByName(namespace, name) ==
    LET key == [Namespace |-> namespace, Name |-> name]
    IN  IF key \in storeClusters THEN [cluster |-> <<key>>, err |-> NilErr]
        ELSE [cluster |-> <<>>, err |-> ErrNotFound]

\* util.GetOwnerCluster: the Cluster named by the first owner reference of
\* kind Cluster, looked up in the object's namespace; (nil, nil) when no
\* owner reference is of kind Cluster.
RECURSIVE GetOwnerCluster(_)
GetOwnerCluster(refs) ==
    IF refs = <<>> THEN [cluster |-> <<>>, err |-> NilErr]
    ELSE IF Head(refs).Kind = "Cluster"
         THEN GetClusterByName(bmcNamespace, Head(refs).Name)
         ELSE GetOwnerCluster(Tail(refs))

\* The Machines of the store, as many as the store holds of each.
NbMachines ==
    LET RECURSIVE Sum(_)
        Sum(S) == IF S = {} THEN 0
                  ELSE LET o == CHOOSE x \in S : TRUE
                       IN  storeMachines[o] + Sum(S \ {o})
    IN  Sum(MachineObjects)

\* List without the InNamespace option.
List_AnyNamespace(namespace, value) ==
    LET Matches(o) == o.Label = <<value>>
        RECURSIVE Items(_)
        Items(S) == IF S = {} THEN <<>>
                    ELSE LET o == CHOOSE x \in S : TRUE
                         IN  [i \in 1..storeMachines[o] |-> o] \o Items(S \ {o})
    IN  Items({o \in MachineObjects : Matches(o)})

\* client.List with InNamespace and MatchingLabels{ClusterLabelName: value}:
\* the Machines of that namespace whose label has that value.
List(namespace, value) ==
    LET Matches(o) == o.Namespace = namespace /\ o.Label = <<value>>
        RECURSIVE Items(_)
        Items(S) == IF S = {} THEN <<>>
                    ELSE LET o == CHOOSE x \in S : TRUE
                         IN  [i \in 1..storeMachines[o] |-> o] \o Items(S \ {o})
    IN  Items({o \in MachineObjects : Matches(o)})

\* listDescendants.  listFails: the store fails the List call; partial: how
\* many Machines the failed call has left in the list it was given.
\* Dereferencing the nil cluster of (nil, nil) panics.  The client calls it
\* issues: the Get of util.GetOwnerCluster when an owner reference is of
\* kind Cluster, then the List.
listDescendants(listFails, partial) ==
    LET machines == <<>>
        r == GetOwnerCluster(OwnerReferences)
        err == r.err
        get == IF \E i \in DOMAIN OwnerReferences :
                     OwnerReferences[i].Kind = "Cluster"
               THEN {"Get"} ELSE {}
    IN  IF err # NilErr
        THEN [Items |-> machines, err |-> err, panic |-> FALSE,
              owner |-> FALSE, listed |-> FALSE, listFailed |-> FALSE,
              calls |-> get]
        ELSE IF r.cluster = <<>>
        THEN [Items |-> machines, err |-> NilErr, panic |-> TRUE,
              owner |-> FALSE, listed |-> FALSE, listFailed |-> FALSE,
              calls |-> get]
        ELSE LET cluster == r.cluster[1]
                 found == List(cluster.Namespace, cluster.Name)
                 errMsg == "failed to list BaremetalMachines for cluster"
             IN  IF listFails
                 THEN [Items |-> SubSeq(found, 1, partial),
                       err |-> Wrapf(err, errMsg), panic |-> FALSE,
                       owner |-> TRUE, listed |-> FALSE, listFailed |-> TRUE,
                       calls |-> get \cup {"List"}]
                 ELSE [Items |-> found, err |-> NilErr, panic |-> FALSE,
                       owner |-> TRUE, listed |-> TRUE, listFailed |-> FALSE,
                       calls |-> get \cup {"List"}]

\* The number of Machines List finds for the owner cluster.
NbFound ==
    LET r == GetOwnerCluster(OwnerReferences)
    IN  IF r.cluster = <<>> THEN 0
        ELSE Len(List(r.cluster[1].Namespace, r.cluster[1].Name))

\* CountDescendants recording its failure in the status.
CountDescendants_RecordsError ==
    /\ Running
    /\ \E listFails \in BOOLEAN, partial \in 0..NbFound :
          /\ ~listFails => partial = 0
          /\ LET d == listDescendants(listFails, partial)
                 nbDescendants == Len(d.Items)
                 ret == IF d.err # NilErr
                        THEN Call("CountDescendants", 0, d.err)
                        ELSE Call("CountDescendants", nbDescendants, NilErr)
             IN  /\ last' = [ret EXCEPT !.panic = d.panic,
                                        !.count = IF d.panic THEN 0 ELSE @,
                                        !.owner = d.owner,
                                        !.listed = d.listed,
                                        !.listFailed = d.listFailed,
                                        !.calls = d.calls]
              /\ IF d.err # NilErr
                 THEN setError("Failed to list descendants", UpdateClusterError)
                 ELSE UNCHANGED <<FailureMessage, FailureReason>>
    /\ UNCHANGED <<meta, Finalizers, Ready, LastUpdated, APIEndpoints, store,
                   clock>>

\* CountDescendants reporting remaining descendants as an error.
CountDescendants_NonZeroIsError ==
    /\ Running
    /\ \E listFails \in BOOLEAN, partial \in 0..NbFound :
          /\ ~listFails => partial = 0
          /\ LET d == listDescendants(listFails, partial)
                 nbDescendants == Len(d.Items)
                 ret == IF d.err # NilErr
                        THEN Call("CountDescendants", 0, d.err)
                        ELSE IF nbDescendants > 0
                        THEN Call("CountDescendants", nbDescendants,
                                  "descendants still exist")
                        ELSE Call("CountDescendants", nbDescendants, NilErr)
             IN  last' = [ret EXCEPT !.panic = d.panic,
                                     !.count = IF d.panic THEN 0 ELSE @,
                                     !.owner = d.owner,
                                     !.listed = d.listed,
                                     !.listFailed = d.listFailed,
                                     !.calls = d.calls]
    /\ UNCHANGED <<meta, Finalizers, status, store, clock>>

CountDescendants ==
    /\ Running
    /\ \E listFails \in BOOLEAN, partial \in 0..NbFound :
          /\ ~listFails => partial = 0
          /\ LET d == listDescendants(listFails, partial)
                 nbDescendants == Len(d.Items)
                 ret == IF d.err # NilErr
                        THEN Call("CountDescendants", 0, d.err)
                        ELSE Call("CountDescendants", nbDescendants, NilErr)
             IN  last' = [ret EXCEPT !.panic = d.panic,
                                     !.count = IF d.panic THEN 0 ELSE @,
                                     !.owner = d.owner,
                                     !.listed = d.listed,
                                     !.listFailed = d.listFailed,
                                     !.calls = d.calls]
    /\ UNCHANGED <<meta, Finalizers, status, store, clock>>

\* ------------------------------------------------------------ environment
\* Other controllers create and delete the Machines of the store.
MachineCreated ==
    /\ Running
    /\ NbMachines < MaxMachines
    /\ \E o \in MachineObjects :
          storeMachines' = [storeMachines EXCEPT ![o] = @ + 1]
    /\ last' = Call("store", 0, NilErr)
    /\ UNCHANGED <<meta, Finalizers, status, storeClusters, clock>>

MachineDeleted ==
    /\ Running
    /\ \E o \in MachineObjects :
          /\ storeMachines[o] > 0
          /\ storeMachines' = [storeMachines EXCEPT ![o] = @ - 1]
    /\ last' = Call("store", 0, NilErr)
    /\ UNCHANGED <<meta, Finalizers, status, storeClusters, clock>>

\* ----------------------------------------------------------- construction
\* NewClusterManager checking the BareMetalCluster alone.
NewClusterManager_NoClusterCheck(cluster, bareMetalCluster) ==
    IF bareMetalCluster = <<>>
    THEN [manager |-> <<>>,
          err |-> "BareMetalCluster is required when creating a ClusterManager"]
    ELSE [manager |-> <<[Cluster |-> cluster,
                        BareMetalCluster |-> bareMetalCluster]>>,
          err |-> NilErr]

\* NewClusterManager: the manager (a pointer) and the error it returns.
NewClusterManager(cluster, bareMetalCluster) ==
    IF bareMetalCluster = <<>>
    THEN [manager |-> <<>>,
          err |-> "BareMetalCluster is required when creating a ClusterManager"]
    ELSE IF cluster = <<>>
    THEN [manager |-> <<>>,
          err |-> "Cluster is required when creating a ClusterManager"]
    ELSE [manager |-> <<[Cluster |-> cluster,
                        BareMetalCluster |-> bareMetalCluster]>>,
          err |-> NilErr]

\* A call of NewClusterManager with each argument nil or an object.
NewClusterManagerCall ==
    /\ \E cluster \in {<<>>} \cup {<<c>> : c \in Clusters},
          bareMetalCluster \in {<<>>} \cup {<<b>> : b \in BareMetalClusters} :
          LET r == NewClusterManager(cluster, bareMetalCluster)
          IN  /\ manager' = r.manager
              /\ last' = [cluster |-> cluster,
                          bareMetalCluster |-> bareMetalCluster]
                         @@ Call("NewClusterManager", 0, r.err)
    /\ UNCHANGED <<endPoint, OwnerReferences, image, Finalizers, status, store,
                   clock>>

\* ---------------------------------------------------------------- webhook
\* ValidateUpdate without the checksum check.
ValidateUpdate_NoChecksum(img, old) ==
    IF img.URL = "" THEN "Required value: spec.image.url" ELSE NilErr

\* BareMetalMachine.validate: the image URL and checksum are required.
validate(img) ==
    IF img.URL = "" THEN "Required value: spec.image.url"
    ELSE IF img.Checksum = "" THEN "Required value: spec.image.checksum"
    ELSE NilErr

ValidateCreate(img) == validate(img)

ValidateUpdate(img, old) == validate(img)

ValidateCreateCall ==
    /\ last' = Call("ValidateCreate", 0, ValidateCreate(image))
    /\ UNCHANGED <<meta, Finalizers, status, store, clock>>

ValidateUpdateCall ==
    /\ \E old \in {<<>>, <<validImage>>} :
          last' = Call("ValidateUpdate", 0, ValidateUpdate(image, old))
    /\ UNCHANGED <<meta, Finalizers, status, store, clock>>

\* ----------------------------------------------------------- specification
\* The BareMetalCluster's spec and owner references, and the store.
InitObjects ==
    /\ endPoint \in [Host : Hosts, Port : Ports]
    /\ OwnerReferences \in {<<>>, <<MachineSetRef, ClusterRef>>}
    /\ APIEndpoints = <<>>
    /\ storeClusters \in SUBSET {theCluster}
    /\ storeMachines = [o \in MachineObjects |-> 0]
    /\ last = NoCall

\* A manager bound to the Cluster and the BareMetalCluster.
InitManager ==
    /\ manager = <<[Cluster |-> <<theCluster>>, BareMetalCluster |-> <<"bmc1">>]>>
    /\ image = validImage

\* A freshly fetched BareMetalCluster with a manager bound to it: no status
\* yet, any spec, any owner references, any store.
Init ==
    /\ InitObjects
    /\ InitManager
    /\ Finalizers \in {<<>>, <<OtherFinalizer>>}
    /\ Ready = FALSE
    /\ LastUpdated = <<>>
    /\ clock = 0
    /\ FailureMessage = <<>>
    /\ FailureReason = <<>>

Next ==
    \/ SetFinalizer
    \/ UnsetFinalizer
    \/ Create
    \/ Delete
    \/ UpdateClusterStatus
    \/ SetErrorCall
    \/ ClearErrorCall
    \/ CountDescendants
    \/ MachineCreated
    \/ MachineDeleted

Spec == Init /\ [][Next]_vars

\* A BareMetalCluster fetched with the status an earlier reconciliation left
\* (ready or not, stamped at some earlier time or not, with or without the
\* error record of a failed Create), driven through the public operations
\* alone.
InitPublic ==
    /\ InitObjects
    /\ InitManager
    /\ Finalizers \in {<<>>, <<OtherFinalizer>>}
    /\ Ready \in BOOLEAN
    /\ clock \in 0..MaxClock
    /\ LastUpdated \in {<<>>} \cup {<<t>> : t \in 0..clock}
    /\ \E e \in BOOLEAN :
          /\ FailureMessage = IF e THEN <<"Invalid BareMetalCluster provided">>
                              ELSE <<>>
          /\ FailureReason = IF e THEN <<InvalidConfigurationClusterError>>
                             ELSE <<>>

NextPublic ==
    \/ SetFinalizer
    \/ UnsetFinalizer
    \/ Create
    \/ Delete
    \/ UpdateClusterStatus
    \/ CountDescendants
    \/ MachineCreated
    \/ MachineDeleted

SpecPublic == InitPublic /\ [][NextPublic]_vars

\* A BareMetalCluster fetched with any finalizer list, the provider's token
\* in it or not, once or several times, among the tokens of others; the two
\* finalizer operations.
FinalizerLists ==
    UNION {[1..n -> {ClusterFinalizer, OtherFinalizer, OrphanFinalizer}] :
             n \in 0..MaxFinalizers}

InitFinalizers ==
    /\ InitObjects
    /\ InitManager
    /\ Finalizers \in FinalizerLists
    /\ Ready = FALSE
    /\ LastUpdated = <<>>
    /\ clock = 0
    /\ FailureMessage = <<>>
    /\ FailureReason = <<>>

NextFinalizers ==
    \/ SetFinalizer
    \/ UnsetFinalizer

SpecFinalizers == InitFinalizers /\ [][NextFinalizers]_vars

\* A BareMetalCluster fetched with any error fields, one of the two alone
\* included; the two error helpers.
InitErrors ==
    /\ InitObjects
    /\ InitManager
    /\ Finalizers \in {<<>>, <<OtherFinalizer>>}
    /\ Ready = FALSE
    /\ LastUpdated = <<>>
    /\ clock = 0
    /\ FailureMessage \in {<<>>, <<"cba">>}
    /\ FailureReason \in {<<>>, <<UpdateClusterError>>}

NextErrors ==
    \/ SetErrorCall
    \/ ClearErrorCall

SpecErrors == InitErrors /\ [][NextErrors]_vars

\* Before construction: no manager yet; NewClusterManager is called with
\* any arguments, any number of times.
InitNew ==
    /\ InitObjects
    /\ manager = <<>>
    /\ image = validImage
    /\ Finalizers \in {<<>>, <<OtherFinalizer>>}
    /\ Ready = FALSE
    /\ LastUpdated = <<>>
    /\ clock = 0
    /\ FailureMessage = <<>>
    /\ FailureReason = <<>>

NextNew == NewClusterManagerCall

SpecNew == InitNew /\ [][NextNew]_vars

\* Admission of a BareMetalMachine with any image: the webhook's two
\* validations, before any manager exists.
InitWebhook ==
    /\ InitObjects
    /\ manager = <<>>
    /\ image \in [URL : {"", validImage.URL}, Checksum : {"", validImage.Checksum}]
    /\ Finalizers \in {<<>>, <<OtherFinalizer>>}
    /\ Ready = FALSE
    /\ LastUpdated = <<>>
    /\ clock = 0
    /\ FailureMessage = <<>>
    /\ FailureReason = <<>>

NextWebhook ==
    \/ ValidateCreateCall
    \/ ValidateUpdateCall

SpecWebhook == InitWebhook /\ [][NextWebhook]_vars

\* ------------------------------------------------------------------ claims
\* The spec's control-plane endpoint has a host and a port.
ValidEndpoint == endPoint.Host # "" /\ endPoint.Port # 0

\* The BareMetalCluster has an owner reference to a Cluster the store holds.
OwnerResolves ==
    /\ \E i \in 1..Len(OwnerReferences) : OwnerReferences[i].Kind = "Cluster"
    /\ [Namespace |-> bmcNamespace, Name |-> clusterName] \in storeClusters

\* The Machines of the store in the owner cluster's namespace that carry
\* the owner cluster's name as their cluster-name label.
OwnedMachines ==
    storeMachines[[Namespace |-> bmcNamespace, Label |-> <<clusterName>>]]

\* C1: an UnsetFinalizer made directly after a CountDescendants that
\* returned (0, nil) never removes the finalizer token while the store holds
\* a Machine of the owner cluster.
C1_DeletionGate ==
    [][(/\ last.op = "CountDescendants"
        /\ ~last.panic
        /\ last.count = 0
        /\ last.err = NilErr
        /\ last'.op = "UnsetFinalizer"
        /\ Contains(Finalizers, ClusterFinalizer)
        /\ ~Contains(Finalizers', ClusterFinalizer))
       => OwnedMachines = 0]_vars

\* C2: a CountDescendants whose List call failed returns a non-nil error.
C2_ListFailureReturned ==
    (last.op = "CountDescendants" /\ last.listFailed) => last.err # NilErr

\* C3: with an empty host or a zero port, UpdateClusterStatus leaves Ready
\* false, an error record with the invalid-configuration reason, no resolved
\* endpoint, and returns a non-nil error.
C3_UpdateInvalidFails ==
    (last.op = "UpdateClusterStatus" /\ ~ValidEndpoint)
    => /\ Ready = FALSE
       /\ FailureMessage # <<>>
       /\ FailureReason = <<InvalidConfigurationClusterError>>
       /\ APIEndpoints = <<>>
       /\ last.err # NilErr

\* C4: Ready is true only if the endpoint has a host and a port.
C4_ReadyOnlyIfValid == Ready => ValidEndpoint

\* C5 as stated: with a valid endpoint, UpdateClusterStatus returns nil and
\* leaves Ready true, the error record nil and LastUpdated advanced.
C5_UpdateValidClearsError ==
    [][(last'.op = "UpdateClusterStatus" /\ ValidEndpoint)
       => /\ last'.err = NilErr
          /\ Ready'
          /\ FailureMessage' = <<>>
          /\ FailureReason' = <<>>
          /\ LastUpdated' = <<clock'>>
          /\ clock' >= clock
          /\ LastUpdated # <<>> => LastUpdated'[1] >= LastUpdated[1]]_vars

\* C5 as amended: with a valid endpoint, UpdateClusterStatus returns nil and
\* leaves Ready true, LastUpdated at the current time (never earlier than it
\* was), and the error record as it was before the call.
C5_UpdateValidKeepsError ==
    [][(last'.op = "UpdateClusterStatus" /\ ValidEndpoint)
       => /\ last'.err = NilErr
          /\ Ready'
          /\ UNCHANGED <<FailureMessage, FailureReason>>
          /\ LastUpdated' = <<clock'>>
          /\ clock' >= clock
          /\ LastUpdated # <<>> => LastUpdated'[1] >= LastUpdated[1]]_vars

\* A successful UpdateClusterStatus of a valid endpoint made while the
\* status carried an error record.
C5_Witness ==
    /\ last.op = "UpdateClusterStatus"
    /\ ValidEndpoint
    /\ last.hadErr
    /\ Ready
    /\ LastUpdated # <<>>

\* C6: after a successful UpdateClusterStatus of a valid endpoint the status
\* holds exactly one resolved endpoint, with the spec's host and port.
C6_OneResolvedEndpoint ==
    (last.op = "UpdateClusterStatus" /\ last.err = NilErr /\ ValidEndpoint)
    => APIEndpoints = <<[Host |-> endPoint.Host, Port |-> endPoint.Port]>>

\* C7: when the owner resolves and List succeeds, CountDescendants returns,
\* with a nil error, the number of Machines in the owner cluster's namespace
\* labelled with its name; no other Machine is counted.
C7_CountIsOwnedMachines ==
    (last.op = "CountDescendants" /\ last.listed)
    => /\ OwnerResolves
       /\ ~last.panic
       /\ last.err = NilErr
       /\ last.count = OwnedMachines

\* A count of one returned while the store also holds a Machine that is not
\* the owner cluster's.
C7_Witness ==
    /\ last.op = "CountDescendants"
    /\ last.listed
    /\ last.count = 1
    /\ NbMachines = 2

\* C8: when no owner reference names a Cluster, or the Cluster cannot be
\* fetched, CountDescendants returns a non-nil error (it neither returns a
\* count with a nil error nor panics).
C8_OwnerErrorReturned ==
    (last.op = "CountDescendants" /\ ~OwnerResolves)
    => /\ ~last.panic
       /\ last.err # NilErr

\* C9: FailureMessage and FailureReason are both set or both unset.
C9_ErrorFieldsPaired == (FailureMessage = <<>>) <=> (FailureReason = <<>>)

\* An error record set by a failing Create.
C9_Witness ==
    /\ last.op = "Create"
    /\ last.err # NilErr
    /\ FailureMessage # <<>>
    /\ FailureReason # <<>>

\* C10: a Create of an invalid spec returns a non-nil error and leaves an
\* error record with the invalid-configuration reason; a Create of a valid
\* spec returns nil and leaves both error fields unset.
C10_CreateErrorRecord ==
    last.op = "Create"
    => IF IsValid(endPoint) # NilErr
       THEN /\ last.err # NilErr
            /\ FailureMessage # <<>>
            /\ FailureReason = <<InvalidConfigurationClusterError>>
       ELSE /\ last.err = NilErr
            /\ FailureMessage = <<>>
            /\ FailureReason = <<>>

\* A successful Create made while the status carried an error record.
C10_Witness ==
    /\ last.op = "Create"
    /\ last.err = NilErr
    /\ last.hadErr
    /\ ValidEndpoint

\* The status carries an error record.
ErrorSet == FailureMessage # <<>> \/ FailureReason # <<>>

\* C11: over the public operations, the error record goes from set to unset
\* only in a step that is a Create or an UpdateClusterStatus returning nil.
C11_ClearedOnlyBySuccess ==
    [][(ErrorSet /\ ~ErrorSet')
       => /\ last'.op \in {"Create", "UpdateClusterStatus"}
          /\ last'.err = NilErr
          /\ ~last'.panic]_vars

\* An error record left by an earlier reconciliation, cleared by a
\* successful Create.
C11_Witness ==
    /\ last.op = "Create"
    /\ last.err = NilErr
    /\ last.hadErr
    /\ ~ErrorSet

\* The number of times the provider's token is in the finalizer list.
NbTokens ==
    Cardinality({i \in 1..Len(Finalizers) : Finalizers[i] = ClusterFinalizer})

\* C12: for a resource that starts without the token, the token is in the
\* finalizer list if and only if SetFinalizer has been called and
\* UnsetFinalizer has not been called since.
C12_TokenIffSet == (NbTokens > 0) <=> last.finSet

\* The token still there after a later operation.
C12_Witness ==
    /\ last.op = "Delete"
    /\ last.finSet
    /\ NbTokens = 1

\* C13: a SetFinalizer directly after a SetFinalizer leaves the finalizer
\* list as it is; an UnsetFinalizer on a list without the token leaves the
\* list as it is and raises no error.
C13_FinalizerIdempotent ==
    [][/\ (last.op = "SetFinalizer" /\ last'.op = "SetFinalizer")
          => Finalizers' = Finalizers
       /\ (last'.op = "UnsetFinalizer" /\ NbTokens = 0)
          => /\ Finalizers' = Finalizers
             /\ last'.err = NilErr
             /\ ~last'.panic]_vars

\* A second SetFinalizer in a row.
C13_Witness ==
    /\ last.op = "SetFinalizer"
    /\ last.again
    /\ NbTokens > 0

\* C14: whatever the initial list, the token is in the list right after
\* SetFinalizer and nowhere in it right after UnsetFinalizer.
C14_SetThenUnset ==
    /\ last.op = "SetFinalizer" => NbTokens > 0
    /\ last.op = "UnsetFinalizer"
       => \A i \in 1..Len(Finalizers) : Finalizers[i] # ClusterFinalizer

\* An UnsetFinalizer directly after a SetFinalizer, other finalizers left.
C14_Witness ==
    /\ last.op = "UnsetFinalizer"
    /\ last.undo
    /\ Finalizers # <<>>

\* C15: NewClusterManager returns an error and a nil manager if and only if
\* the Cluster or the BareMetalCluster argument is nil; with both non-nil it
\* returns a nil error and a manager bound to exactly those two objects.
C15_ConstructionFailsIffNil ==
    last.op = "NewClusterManager"
    => /\ (last.err # NilErr /\ manager = <<>>)
          <=> (last.cluster = <<>> \/ last.bareMetalCluster = <<>>)
       /\ (last.cluster # <<>> /\ last.bareMetalCluster # <<>>)
          => /\ last.err = NilErr
             /\ manager = <<[Cluster |-> last.cluster,
                             BareMetalCluster |-> last.bareMetalCluster]>>

\* A construction refused for its nil Cluster alone.
C15_Witness ==
    /\ last.op = "NewClusterManager"
    /\ last.cluster = <<>>
    /\ last.bareMetalCluster # <<>>
    /\ manager = <<>>
    /\ last.err # NilErr

\* C20: ValidateCreate and ValidateUpdate each reject a machine whose image
\* URL or checksum is empty and accept one with both; called one after the
\* other on the same machine they agree.
C20_WebhookValidation ==
    [][last'.op \in {"ValidateCreate", "ValidateUpdate"}
       => /\ last'.err # NilErr <=> (image.URL = "" \/ image.Checksum = "")
          /\ last.op \in {"ValidateCreate", "ValidateUpdate"}
             => (last'.err = NilErr <=> last.err = NilErr)]_vars

\* A ValidateUpdate rejecting a machine for its empty checksum alone.
C20_Witness ==
    /\ last.op = "ValidateUpdate"
    /\ image.URL # ""
    /\ image.Checksum = ""
    /\ last.err # NilErr

\* C16: LastUpdated never decreases; an UpdateClusterStatus returning nil
\* sets it to the current time; an UpdateClusterStatus returning an error
\* and every other operation leave it as it is.
C16_LastUpdatedMonotonic ==
    [][/\ LastUpdated # <<>>
          => (LastUpdated' # <<>> /\ LastUpdated'[1] >= LastUpdated[1])
       /\ (last'.op = "UpdateClusterStatus" /\ last'.err = NilErr)
          => (LastUpdated' = <<clock'>> /\ clock' >= clock)
       /\ (last'.op = "UpdateClusterStatus" /\ last'.err # NilErr)
          => UNCHANGED LastUpdated
       /\ last'.op # "UpdateClusterStatus" => UNCHANGED LastUpdated]_vars

\* A second UpdateClusterStatus in a row, at a later time than the start.
C16_Witness ==
    /\ last.op = "UpdateClusterStatus"
    /\ last.again
    /\ LastUpdated # <<>>
    /\ LastUpdated[1] > 0

\* C17: an UpdateClusterStatus directly after an UpdateClusterStatus leaves
\* Ready, the resolved endpoints and the error record as they are and
\* returns what the first returned.
C17_UpdateIdempotent ==
    [][(last.op = "UpdateClusterStatus" /\ last'.op = "UpdateClusterStatus")
       => /\ Ready' = Ready
          /\ APIEndpoints' = APIEndpoints
          /\ UNCHANGED <<FailureMessage, FailureReason>>
          /\ last'.err = last.err
          /\ last'.panic = last.panic]_vars

\* A second UpdateClusterStatus in a row on a status with an error record.
C17_Witness ==
    /\ last.op = "UpdateClusterStatus"
    /\ last.again
    /\ last.hadErr
    /\ ErrorSet

\* C18: whatever the error fields were, setError(m, r) leaves m and r in
\* them, a clearError directly after it leaves both unset, and a clearError
\* on a status without error changes nothing.
C18_SetThenClearError ==
    [][/\ last'.op = "setError"
          => /\ FailureMessage' = <<last'.message>>
             /\ FailureReason' = <<last'.reason>>
       /\ (last.op = "setError" /\ last'.op = "clearError")
          => (FailureMessage' = <<>> /\ FailureReason' = <<>>)
       /\ (last'.op = "clearError" /\ ~ErrorSet)
          => UNCHANGED <<status, Finalizers>>]_vars

\* A clearError directly after a setError.
C18_Witness ==
    /\ last.op = "clearError"
    /\ last.undo
    /\ last.hadErr
    /\ ~ErrorSet

\* C19: Delete returns nil and changes neither the finalizer list, nor the
\* status, nor the spec, nor the store.
C19_DeleteNoOp ==
    [][last'.op = "Delete"
       => /\ last'.err = NilErr
          /\ ~last'.panic
          /\ UNCHANGED <<Finalizers, status, endPoint, OwnerReferences, store>>]_vars

\* A Delete of a ready BareMetalCluster with the token, an error record and
\* Machines in the store.
C19_Witness ==
    /\ last.op = "Delete"
    /\ Ready
    /\ NbTokens > 0
    /\ ErrorSet
    /\ NbMachines > 0

\* C21: CountDescendants, whatever its outcome (a count, an owner that does
\* not resolve, a failed List), leaves the finalizer list and every status
\* field as they were.
C21_CountReadOnly ==
    [][last'.op = "CountDescendants"
       => UNCHANGED <<Finalizers, status>>]_vars

\* A CountDescendants that returned an error, on a ready BareMetalCluster
\* with the token and an error record.
C21_Witness ==
    /\ last.op = "CountDescendants"
    /\ last.err # NilErr
    /\ Ready
    /\ NbTokens > 0
    /\ ErrorSet

\* The operations of the manager.
ManagerOperations ==
    {"Create", "UpdateClusterStatus", "SetFinalizer", "UnsetFinalizer",
     "Delete", "CountDescendants"}

\* C22: no operation of the manager changes the objects of the store or the
\* Cluster the manager was given, and the only calls an operation makes to
\* the store's client are Get and List.
C22_StoreReadOnly ==
    [][last'.op \in ManagerOperations
       => /\ UNCHANGED <<store, manager>>
          /\ last'.calls \subseteq {"Get", "List"}]_vars

\* A CountDescendants that got the owner and listed its Machines, the store
\* holding Machines, on a BareMetalCluster earlier operations have changed.
C22_Witness ==
    /\ last.op = "CountDescendants"
    /\ last.calls = {"Get", "List"}
    /\ NbMachines > 0
    /\ Ready
    /\ NbTokens > 0

\* The tokens of a finalizer list that are not the provider's, in order.
OtherTokens(list) == SelectSeq(list, LAMBDA t : t # ClusterFinalizer)

\* C23: SetFinalizer and UnsetFinalizer keep every token that is not the
\* provider's, as many times as it was there and in the same order, and
\* change nothing else of the BareMetalCluster.
C23_OtherTokensKept ==
    [][last'.op \in {"SetFinalizer", "UnsetFinalizer"}
       => /\ OtherTokens(Finalizers') = OtherTokens(Finalizers)
          /\ UNCHANGED <<status, endPoint, OwnerReferences>>]_vars

\* An UnsetFinalizer directly after a SetFinalizer that has left two
\* different tokens of others, one of them twice.
C23_Witness ==
    /\ last.op = "UnsetFinalizer"
    /\ last.undo
    /\ Finalizers = <<OrphanFinalizer, OtherFinalizer, OrphanFinalizer>>

\* C24: Create, UpdateClusterStatus, setError and clearError leave the
\* finalizer list as it is; SetFinalizer and UnsetFinalizer leave every
\* status field as it is.
C24_FinalizersStatusOrthogonal ==
    [][/\ last'.op \in {"Create", "UpdateClusterStatus", "setError",
                        "clearError"}
          => UNCHANGED Finalizers
       /\ last'.op \in {"SetFinalizer", "UnsetFinalizer"}
          => UNCHANGED status]_vars

\* A failing Create on a ready BareMetalCluster that carries the token of an
\* earlier SetFinalizer.
C24_Witness ==
    /\ last.op = "Create"
    /\ last.err # NilErr
    /\ last.finSet
    /\ NbTokens = 1
    /\ Ready
    /\ ErrorSet

\* C25: CountDescendants returns a count of zero with every non-nil error,
\* and a nil error with every count above zero.
C25_NoCountWithError ==
    last.op = "CountDescendants"
    => /\ last.err # NilErr => last.count = 0
       /\ last.count > 0 => last.err = NilErr

\* A CountDescendants that returned a count above zero.
C25_Witness ==
    /\ last.op = "CountDescendants"
    /\ ~last.panic
    /\ last.count > 0
    /\ last.err = NilErr

====
